---- MODULE Spec2Model ----
(***************************************************************************)
(* Client-side controllers of the sigua.io site.                           *)
(*                                                                         *)
(* DownloadManager (static/js/download.js): every click on a download      *)
(* control starts an async handler ("flow").  A flow suspends at four      *)
(* awaits: fetch of hop 1, response1.json(), fetch of hop 2,               *)
(* response2.json().  Between two awaits the handler runs to completion,   *)
(* so one action of the model is one such run: it is given as the list of  *)
(* calls the code makes, and the action applies the whole list.            *)
(*                                                                         *)
(* The message texts of the source are Chinese; the module carries their   *)
(* English glosses, one distinct string per distinct source literal.       *)
(*                                                                         *)
(* SPAManager (static/js/spa.js), NavigationManager                        *)
(* (static/js/navigation.js) and the life of a notification element share  *)
(* no state with the flows or with each other.  Each has its own           *)
(* specification: SpecSPA, SpecNavigation, SpecNotifications; Spec is the  *)
(* specification of the download flows.  In each of them the other         *)
(* controllers rest in the state their constructor leaves.                 *)
(***************************************************************************)
EXTENDS Naturals, Sequences, FiniteSets, TLC

\* Number of clicks on download controls that a behaviour may contain.
MaxFlows == 2

Flows == 1..MaxFlows

----------------------------------------------------------------------------
(* JavaScript values, as far as the download flow inspects them.  A value  *)
(* is its type tag and its literal text.                                   *)

Undefined == [t |-> "undefined", v |-> ""]
Num(s) == [t |-> "number", v |-> s]
Str(s) == [t |-> "string", v |-> s]

\* The value JSON null, as returned by response.json().
JsonNull == [t |-> "null", v |-> ""]

\* ToBoolean, as applied by `!x`, `a && b` and `if (x)`.
Truthy(x) ==
    CASE x.t = "undefined" -> FALSE
      [] x.t = "null"      -> FALSE
      [] x.t = "number"    -> x.v # "0"
      [] x.t = "string"    -> x.v # ""

----------------------------------------------------------------------------
(* Inputs: what the page and the two servers may supply.                   *)

apiBaseUrl == "https://a.hkdownload.com/get.php"

\* Click targets: the set of control classes that e.target.closest() finds.
Controls == {"download-btn--pc", "download-btn--mobile", "getDown"}
Targets ==
    { {"download-btn--pc"}, {"download-btn--mobile"}, {"getDown"},
      {"download-btn--mobile", "getDown"}, Controls }

\* navigator.userAgent, as the sequence of its product tokens.
UserAgents ==
    { <<"Mozilla", "Windows", "Chrome">>,
      <<"Mozilla", "IPAD", "Safari">> }

Hostnames == {"sigua.io"}

\* HTTP statuses a hop may answer with.
Statuses == {200, 204, 500}

WebhostValues == {Undefined, Str("https://x/y")}
GoValues == {Undefined, Str("https://files/app.apk")}
CodeValues == {Undefined, Num("0"), Num("500")}
MsgValues == {Undefined, Str("site disabled")}

\* Parsed JSON bodies of hop 1 and of hop 2: every combination of the values
\* above, and the bodies with an empty webhost, go or msg.
Bodies1 ==
    [webhost : WebhostValues, code : CodeValues, msg : MsgValues]
    \cup { [webhost |-> Str(""), code |-> Undefined, msg |-> Undefined],
           [webhost |-> Undefined, code |-> Num("500"), msg |-> Str("")] }
Bodies2 ==
    [go : GoValues, code : CodeValues, msg : MsgValues]
    \cup { [go |-> Str(""), code |-> Undefined, msg |-> Undefined],
           [go |-> Undefined, code |-> Num("500"), msg |-> Str("")] }

\* What response.json() may resolve with, at hop 1 and at hop 2.
Json1Values == Bodies1 \cup {JsonNull}
Json2Values == Bodies2 \cup {JsonNull}

----------------------------------------------------------------------------
VARIABLES
    userAgent,      \* navigator.userAgent
    hostname,       \* window.location.hostname
    pc,             \* per flow: the await it is suspended at, "idle" or "done"
    handler,        \* per flow: the async method running it
    deviceType,     \* per flow: the deviceType handed to getDownloadUrl
    trace,          \* per flow: its calls that touch the page or the network
    requests,       \* per flow: the URLs it has fetched, in order
    downloads,      \* per flow: the hrefs of the links it has clicked
    notifications,  \* per flow: the notification elements it appended to the page
    btnStyle,       \* inline style of the .download-btn buttons
    rejected        \* flows whose handler promise rejected

\* SPAManager (static/js/spa.js) and the session history of the browser.
VARIABLES
    currentSection,  \* this.currentSection
    activeSections,  \* ids of the .section elements that carry section--active
    activeLinks,     \* data-section of the links that carry nav__link--active
    entries,         \* the session history: per entry its state object and fragment
    index,           \* position of the current entry in the session history
    faqItems         \* per .faq-item: the open class and the answer's max-height

\* NavigationManager (static/js/navigation.js).
VARIABLES
    isNavOpen,       \* this.isNavOpen
    navToggleClass,  \* classList of #nav-toggle
    navClass,        \* classList of #main-nav
    bodyOverflow,    \* document.body.style.overflow
    innerWidth,      \* window.innerWidth
    headerClass,     \* classList of .header
    lastScrollTop    \* the closure variable of the scroll listener

\* The notification elements of DownloadManager and their timers.
VARIABLES
    notes,           \* the notification elements created so far, in order
    timers           \* per notification: its pending setTimeout callbacks

downloadVars == <<userAgent, hostname, pc, handler, deviceType, trace, requests,
                  downloads, notifications, btnStyle, rejected>>
spaVars == <<currentSection, activeSections, activeLinks, entries, index, faqItems>>
navVars == <<isNavOpen, navToggleClass, navClass, bodyOverflow, innerWidth,
             headerClass, lastScrollTop>>
noteVars == <<notes, timers>>

vars == <<downloadVars, spaVars, navVars, noteVars>>

----------------------------------------------------------------------------
(* Calls.  A run of code between two awaits is the sequence of the calls   *)
(* it makes; Blocks below are translated from the source statement by      *)
(* statement.                                                              *)

Call(op, arg) == [op |-> op, arg |-> arg, type |-> ""]

\* showNotification(message, type): one element appended to document.body.
showNotification(message, type) ==
    << [op |-> "showNotification", arg |-> message, type |-> type] >>

showError(message) == showNotification(message, "error")

showSuccess(message) == showNotification(message, "success")

\* downloadFile(url): a transient link is clicked, then the success message.
downloadFile(url) ==
    << Call("click", url) >> \o showSuccess("download started")

\* The style showLoadingState() leaves on every .download-btn.
showLoadingState(style) == [opacity |-> "0.6", pointerEvents |-> "none"]

\* The style hideLoadingState() leaves on every .download-btn.
hideLoadingState(style) == [opacity |-> "1", pointerEvents |-> "auto"]

\* String.prototype.toLowerCase on the user-agent tokens (the /i flag).
toLowerCase ==
    [Mozilla |-> "mozilla", Windows |-> "windows", Chrome |-> "chrome",
     IPAD |-> "ipad", Safari |-> "safari"]

\* /Mobile|Android|iPhone|iPad/i.test(navigator.userAgent) ? 'mobile' : 'pc'
detectDeviceType(ua) ==
    IF \E i \in 1..Len(ua) :
          toLowerCase[ua[i]] \in {"mobile", "android", "iphone", "ipad"}
    THEN "mobile"
    ELSE "pc"

\* URLSearchParams.toString() of a list of <<name, value>> pairs.
RECURSIVE URLSearchParams(_)
URLSearchParams(pairs) ==
    IF pairs = << >> THEN ""
    ELSE LET head == pairs[1][1] \o "=" \o pairs[1][2]
         IN  IF Len(pairs) = 1 THEN head
             ELSE head \o "&" \o URLSearchParams(Tail(pairs))

\* `${this.apiBaseUrl}?${params}` with params = {type, site}.
Hop1Url(type, site) ==
    apiBaseUrl \o "?" \o URLSearchParams(<< <<"type", type>>, <<"site", site>> >>)

\* Variant: the query of hop 1 is added to the second fetch as well.
Hop2UrlWithParams(data1) == data1.webhost.v \o "?type=pc"

\* The argument of the second fetch: data1.webhost, as it came.
Hop2Url(data1) == data1.webhost.v

\* Response.ok
Ok(status) == status \in 200..299

----------------------------------------------------------------------------
(* getDownloadUrl, cut at its awaits.  Each block yields how it ends       *)
(* ("await" at `next`, "throw" of an error, or "return" of `val`) and the   *)
(* calls made.                                                             *)

Await(next, calls) ==
    [k |-> "await", next |-> next, calls |-> calls, val |-> Undefined, err |-> ""]
\* Variant: an error is swallowed and the promise of the flow stays pending.
ThrowNeverSettles(err) ==
    [k |-> "await", next |-> "hung", calls |-> << >>, val |-> Undefined, err |-> err]
Throw(err) ==
    [k |-> "throw", next |-> "done", calls |-> << >>, val |-> Undefined, err |-> err]
Return(calls, val) ==
    [k |-> "return", next |-> "done", calls |-> calls, val |-> val, err |-> ""]

\* The errors that reach the catch block, by their message.  The three
\* errors the code constructs carry the message it gives them; the errors
\* the platform raises (a rejected fetch, a rejected json(), a property read
\* of null) carry a text that depends on the browser and that the code never
\* reads: they are one value.
PlatformError == "<error raised by the platform>"
HttpError(status) == "HTTP error! status: " \o ToString(status)
NoWebhostError == "no valid download address obtained"
NoGoError == "no final download address obtained"

\* Entry up to `await fetch(...)` of hop 1.
getDownloadUrlEnter(type, site) ==
    Await("fetch1", << Call("fetch", Hop1Url(type, site)) >>)

\* A fetch promise rejected (network failure): the await throws.
fetchRejected == Throw(PlatformError)

\* Variant: a hop that answers non-2xx is asked again.
fetchResolvedRetry(hop, status) ==
    IF ~Ok(status)
    THEN Await(IF hop = 1 THEN "fetch1" ELSE "fetch2", << Call("fetch", apiBaseUrl) >>)
    ELSE Await(IF hop = 1 THEN "json1" ELSE "json2", << >>)

\* A fetch promise resolved: `if (!response.ok) throw`, else response.json().
fetchResolved(hop, status) ==
    IF ~Ok(status) THEN Throw(HttpError(status))
    ELSE Await(IF hop = 1 THEN "json1" ELSE "json2", << >>)

\* response.json() rejected (the body is not JSON): the await throws.
jsonRejected == Throw(PlatformError)

\* Variant: the test looks at msg alone.
HasMsg(data) == Truthy(data.msg)

\* The server-signaled failure test: `data.code && data.msg`.
HasCodeAndMsg(data) == Truthy(data.code) /\ Truthy(data.msg)

\* data1 = await response1.json() ... up to `await fetch(data1.webhost)`.
json1Resolved(data1) ==
    IF data1 = JsonNull THEN Throw(PlatformError)       \* data1.webhost of null
    ELSE IF ~Truthy(data1.webhost) THEN
        IF HasCodeAndMsg(data1)
        THEN Return(showError(data1.msg.v), JsonNull)
        ELSE Throw(NoWebhostError)
    ELSE Await("fetch2", << Call("fetch", Hop2Url(data1)) >>)

\* data2 = await response2.json() ... up to `return data2.go`.
json2Resolved(data2) ==
    IF data2 = JsonNull THEN Throw(PlatformError)       \* data2.go of null
    ELSE IF ~Truthy(data2.go) THEN
        IF HasCodeAndMsg(data2)
        THEN Return(showError(data2.msg.v), JsonNull)
        ELSE Throw(NoGoError)
    ELSE Return(<< >>, data2.go)

----------------------------------------------------------------------------
(* The two handlers around getDownloadUrl: try / catch / finally.          *)

\* Variant: both handlers share the text of handleDownload.
CatchMessageShared(h) == "download busy, error code: 500"

\* The text of the catch block of each handler.
CatchMessage(h) ==
    IF h = "handleDownload"
    THEN "download busy, error code: 500"
    ELSE "sorry, the site has expired, renew it now"

\* Variant: downloadFile is called without the `if (downloadUrl)` test.
handlerResumeNoUrlTest(h, o) ==
    IF o.k = "await"
    THEN [calls |-> o.calls, next |-> o.next, rejects |-> FALSE]
    ELSE [calls |->
             o.calls
             \o ( IF o.k = "throw"
                  THEN << Call("console.error", o.err) >>
                       \o showError(CatchMessage(h))
                  ELSE downloadFile(o.val.v) )
             \o << Call("hideLoadingState", "") >>,
          next |-> "done",
          rejects |-> FALSE]

\* Variant: try / finally without a catch block; the error leaves the handler.
handlerResumeNoCatch(h, o) ==
    IF o.k = "await"
    THEN [calls |-> o.calls, next |-> o.next, rejects |-> FALSE]
    ELSE [calls |->
             o.calls
             \o ( IF o.k = "throw" THEN << >>
                  ELSE IF Truthy(o.val) THEN downloadFile(o.val.v) ELSE << >> )
             \o << Call("hideLoadingState", "") >>,
          next |-> "done",
          rejects |-> (o.k = "throw")]

\* Variant: hideLoadingState() as the last statement of the try block, with
\* no finally block.
handlerResumeNoFinally(h, o) ==
    IF o.k = "await"
    THEN [calls |-> o.calls, next |-> o.next, rejects |-> FALSE]
    ELSE [calls |->
             o.calls
             \o ( IF o.k = "throw"
                  THEN << Call("console.error", o.err) >>
                       \o showError(CatchMessage(h))
                  ELSE ( IF Truthy(o.val) THEN downloadFile(o.val.v) ELSE << >> )
                       \o << Call("hideLoadingState", "") >> ),
          next |-> "done",
          rejects |-> FALSE]

\* try { ... } catch { console.error; showError } finally { hideLoadingState },
\* resumed with the way getDownloadUrl went on.
handlerResume(h, o) ==
    IF o.k = "await"
    THEN [calls |-> o.calls, next |-> o.next, rejects |-> FALSE]
    ELSE [calls |->
             o.calls
             \o ( IF o.k = "throw"
                  THEN << Call("console.error", o.err) >>
                       \o showError(CatchMessage(h))
                  ELSE IF Truthy(o.val) THEN downloadFile(o.val.v) ELSE << >> )
             \o << Call("hideLoadingState", "") >>,
          next |-> "done",
          rejects |-> FALSE]

\* The handler from its first statement to its first await.
handlerEnter(h, type, site) ==
    LET o == getDownloadUrlEnter(type, site)
        r == handlerResume(h, o)
    IN  [r EXCEPT !.calls = << Call("showLoadingState", "") >> \o @]

\* Variant: the generic control always asks for the PC build.
bindEventsGenericPc(target, ua) ==
    IF "download-btn--pc" \in target
    THEN [handler |-> "handleDownload", type |-> "pc"]
    ELSE IF "download-btn--mobile" \in target
    THEN [handler |-> "handleDownload", type |-> "mobile"]
    ELSE [handler |-> "handleOriginalDownload", type |-> "pc"]

\* bindEvents: the if / else-if chain of the document click listener.
bindEvents(target, ua) ==
    IF "download-btn--pc" \in target
    THEN [handler |-> "handleDownload", type |-> "pc"]
    ELSE IF "download-btn--mobile" \in target
    THEN [handler |-> "handleDownload", type |-> "mobile"]
    ELSE [handler |-> "handleOriginalDownload", type |-> detectDeviceType(ua)]

----------------------------------------------------------------------------
(* The effect of a list of calls on the page.                              *)

ArgsOf(calls, op) ==
    LET sel == SelectSeq(calls, LAMBDA c : c.op = op)
    IN  [i \in 1..Len(sel) |-> sel[i].arg]

NotificationsOf(calls) ==
    LET sel == SelectSeq(calls, LAMBDA c : c.op = "showNotification")
    IN  [i \in 1..Len(sel) |-> [message |-> sel[i].arg, type |-> sel[i].type]]

RECURSIVE StyleAfter(_, _)
StyleAfter(style, calls) ==
    IF calls = << >> THEN style
    ELSE LET c == Head(calls)
             s == CASE c.op = "showLoadingState" -> showLoadingState(style)
                    [] c.op = "hideLoadingState" -> hideLoadingState(style)
                    [] OTHER -> style
         IN  StyleAfter(s, Tail(calls))

\* Flow f runs the block r to its end.
Run(f, r) ==
    /\ pc' = [pc EXCEPT ![f] = r.next]
    /\ trace' = [trace EXCEPT ![f] = @ \o r.calls]
    /\ requests' = [requests EXCEPT ![f] = @ \o ArgsOf(r.calls, "fetch")]
    /\ downloads' = [downloads EXCEPT ![f] = @ \o ArgsOf(r.calls, "click")]
    /\ notifications' = [notifications EXCEPT ![f] = @ \o NotificationsOf(r.calls)]
    /\ btnStyle' = StyleAfter(btnStyle, r.calls)
    /\ rejected' = IF r.rejects THEN rejected \cup {f} ELSE rejected
    /\ UNCHANGED <<spaVars, navVars, noteVars>>

----------------------------------------------------------------------------
(* SPAManager (static/js/spa.js).  The methods are functions of the state  *)
(* s of the manager, the section and link classes and the session history; *)
(* a listener is the composition of the methods it calls.  The inline      *)
(* opacity and transform of the fade transition are not part of s.         *)

\* this.sections
sections == << "home", "features", "faq", "download" >>

\* Array.prototype.includes
includes(array, x) == \E i \in 1..Len(array) : array[i] = x

\* The page: the elements of class section, by id; the nav links, by their
\* data-section; the section that the markup marks active.
SectionElements == {"home", "features", "faq", "download"}
NavLinks == {"home", "features", "faq", "download"}
MarkupActive == {"home"}

\* The .faq-item elements that have a question and an answer.
FaqItems == {"faq-1", "faq-2", "faq-3"}

\* Section ids that reach navigateToSection, the fragments of the URL the
\* page is loaded with, and the href of the in-page links.
SectionIds == SectionElements \cup {"doesnotexist"}
Hashes == {"", "#faq", "#download", "#doesnotexist"}
Hrefs == {"#", "#features", "#faq", "#doesnotexist"}

\* String.prototype.substring(1) on the fragments and hrefs above.
substring1 ==
    [h \in Hashes \cup Hrefs |->
        CASE h = ""              -> ""
          [] h = "#"             -> ""
          [] h = "#features"     -> "features"
          [] h = "#faq"          -> "faq"
          [] h = "#download"     -> "download"
          [] h = "#doesnotexist" -> "doesnotexist"]

\* The state object of a history entry: null for the entry of the page load,
\* { section } for an entry pushed by updateURL.
NullState == [t |-> "null", section |-> ""]
SectionState(section) == [t |-> "object", section |-> section]

\* Variant: the target is marked active without unmarking the others.
showSectionKeepOthers(s, section) ==
    [s EXCEPT !.activeSections =
                  IF section \in SectionElements THEN @ \cup {section} ELSE @,
              !.currentSection = section]

\* showSection(section): every .section loses section--active, the element
\* with the id, if there is one, gets it; currentSection is set in any case.
showSection(s, section) ==
    [s EXCEPT !.activeSections =
                  IF section \in SectionElements THEN {section} ELSE {},
              !.currentSection = section]

\* Variant: history.replaceState in place of pushState.
updateURLReplace(s, section) ==
    [s EXCEPT !.entries =
                  [@ EXCEPT ![s.index] =
                      [state |-> SectionState(section), hash |-> "#" \o section]]]

\* updateURL(section): url.hash = '#' + section; history.pushState({section}).
\* pushState drops the entries after the current one and appends the new one.
updateURL(s, section) ==
    [s EXCEPT !.entries =
                  SubSeq(@, 1, s.index)
                  \o << [state |-> SectionState(section), hash |-> "#" \o section] >>,
              !.index = @ + 1]

\* updateActiveNav(section): every .nav__link loses nav__link--active, the
\* element with that data-section, if there is one, gets it.
updateActiveNav(s, section) ==
    [s EXCEPT !.activeLinks = IF section \in NavLinks THEN {section} ELSE {}]

\* Variant: the section is shown without the membership test.
navigateToSectionUnchecked(s, section) ==
    updateActiveNav(updateURL(showSection(s, section), section), section)

\* navigateToSection(section)
navigateToSection(s, section) ==
    IF includes(sections, section)
    THEN updateActiveNav(updateURL(showSection(s, section), section), section)
    ELSE s

\* The popstate listener: `if (e.state && e.state.section) showSection(...)`.
popstate(s, state) ==
    IF state.t # "null" /\ state.section # ""
    THEN showSection(s, state.section)
    ELSE s

\* The listener of .nav__link[data-section]: navigateToSection(data-section).
navLinkClick(s, section) == navigateToSection(s, section)

\* The listener of a[href^="#"].
anchorClick(s, href) ==
    IF href = "#" THEN s
    ELSE IF includes(sections, substring1[href])
    THEN navigateToSection(s, substring1[href])
    ELSE s

\* Variant: the fragment is shown without the membership test.
handleInitialRouteUnchecked(s) ==
    LET hash == substring1[s.entries[s.index].hash]
    IN  IF hash # ""
        THEN updateActiveNav(showSection(s, hash), hash)
        ELSE updateActiveNav(s, "home")

\* handleInitialRoute(): window.location.hash is the fragment of the
\* current history entry.
handleInitialRoute(s) ==
    LET hash == substring1[s.entries[s.index].hash]
    IN  IF hash # "" /\ includes(sections, hash)
        THEN updateActiveNav(showSection(s, hash), hash)
        ELSE updateActiveNav(s, "home")

\* new SPAManager() on a page loaded with the fragment `hash`.
SPAManager(hash) ==
    handleInitialRoute(
        [currentSection |-> "home",
         activeSections |-> MarkupActive,
         activeLinks    |-> {},
         entries        |-> << [state |-> NullState, hash |-> hash] >>,
         index          |-> 1])

\* Variant: the click opens the item and leaves the others as they are.
faqClickKeepOthers(items, item) ==
    IF items[item].open
    THEN [i \in FaqItems |-> [open |-> FALSE, maxHeight |-> "0"]]
    ELSE [items EXCEPT ![item] = [open |-> TRUE, maxHeight |-> "scrollHeight px"]]

\* Variant: the clicked item is opened whether it was open or not.
faqClickAlwaysOpen(items, item) ==
    [i \in FaqItems |->
        IF i = item
        THEN [open |-> TRUE, maxHeight |-> "scrollHeight px"]
        ELSE [open |-> FALSE, maxHeight |-> "0"]]

\* The click listener of a question (setupFAQ): isOpen is read first, every
\* item is closed, and the clicked one is opened if it was not open.
faqClick(items, item) ==
    LET isOpen == items[item].open
    IN  [i \in FaqItems |->
            IF i = item /\ ~isOpen
            THEN [open |-> TRUE, maxHeight |-> "scrollHeight px"]
            ELSE [open |-> FALSE, maxHeight |-> "0"]]

\* The state of the manager and of the page, as a record and back.
SPA ==
    [currentSection |-> currentSection, activeSections |-> activeSections,
     activeLinks |-> activeLinks, entries |-> entries, index |-> index]

SPABecomes(s) ==
    /\ currentSection' = s.currentSection
    /\ activeSections' = s.activeSections
    /\ activeLinks' = s.activeLinks
    /\ entries' = s.entries
    /\ index' = s.index

SPAManagerInit(hash) ==
    /\ currentSection = SPAManager(hash).currentSection
    /\ activeSections = SPAManager(hash).activeSections
    /\ activeLinks = SPAManager(hash).activeLinks
    /\ entries = SPAManager(hash).entries
    /\ index = SPAManager(hash).index
    /\ faqItems = [i \in FaqItems |-> [open |-> FALSE, maxHeight |-> ""]]

----------------------------------------------------------------------------
(* NavigationManager (static/js/navigation.js).  The methods are functions *)
(* of the state n of the manager, of the toggle, of the panel and of the   *)
(* body.                                                                   *)

\* Where a click lands: inside #nav-toggle, inside #main-nav, and on an
\* a[href^="#"] whose target element is found or missing.
ClickTargets ==
    { [inToggle |-> TRUE, inNav |-> FALSE, anchor |-> "none"],
      [inToggle |-> TRUE, inNav |-> TRUE, anchor |-> "none"] }
    \cup [inToggle : {FALSE}, inNav : BOOLEAN, anchor : {"none", "found", "missing"}]

Keys == {"Escape", "Enter"}
Widths == {375, 767, 768, 1024}
ScrollTops == {0, 50, 51, 100, 101, 200, 300}

\* The classes of #main-nav in the markup.
NavMarkups == { {}, {"hidden"} }

\* openNavigation()
openNavigation(n) ==
    [isNavOpen      |-> TRUE,
     navToggleClass |-> n.navToggleClass \cup {"active"},
     navClass       |-> (n.navClass \ {"hidden"}) \cup {"nav--open"},
     bodyOverflow   |-> "hidden"]

\* Variant: the body scroll lock is not released.
closeNavigationKeepLock(n) ==
    [isNavOpen      |-> FALSE,
     navToggleClass |-> n.navToggleClass \ {"active"},
     navClass       |-> (n.navClass \cup {"hidden"}) \ {"nav--open"},
     bodyOverflow   |-> n.bodyOverflow]

\* closeNavigation()
closeNavigation(n) ==
    [isNavOpen      |-> FALSE,
     navToggleClass |-> n.navToggleClass \ {"active"},
     navClass       |-> (n.navClass \cup {"hidden"}) \ {"nav--open"},
     bodyOverflow   |-> ""]

\* toggleNavigation()
toggleNavigation(n) ==
    IF n.isNavOpen THEN closeNavigation(n) ELSE openNavigation(n)

\* The click listener of #nav-toggle.
toggleClick(n, target) ==
    IF target.inToggle THEN toggleNavigation(n) ELSE n

\* Variant: the outside-click listener does not exempt the toggle.
documentClickOutsidePanel(n, target) ==
    IF n.isNavOpen /\ ~target.inNav THEN closeNavigation(n) ELSE n

\* Variant: the outside-click listener does not exempt the panel.
documentClickAnywhere(n, target) ==
    IF n.isNavOpen /\ ~target.inToggle THEN closeNavigation(n) ELSE n

\* The click listener of the document (close on a click outside).
documentClick(n, target) ==
    IF n.isNavOpen /\ ~target.inNav /\ ~target.inToggle
    THEN closeNavigation(n)
    ELSE n

\* The click listener of an a[href^="#"] (setupSmoothScrolling).
smoothScrollClick(n, target) ==
    IF target.anchor = "found" /\ n.isNavOpen THEN closeNavigation(n) ELSE n

\* One click: the listeners on the elements run before the listener on the
\* document, which the event reaches last.
navClick(n, target) ==
    documentClick(toggleClick(smoothScrollClick(n, target), target), target)

\* The keydown listener of the document.
keydown(n, key) ==
    IF key = "Escape" /\ n.isNavOpen THEN closeNavigation(n) ELSE n

\* The resize listener of the window.
resize(n, width) ==
    IF width >= 768 /\ n.isNavOpen THEN closeNavigation(n) ELSE n

\* The scroll listener: the classes it leaves on .header.
scroll(classes, last, scrollTop) ==
    LET scrolled == IF scrollTop > 50
                    THEN classes \cup {"header--scrolled"}
                    ELSE classes \ {"header--scrolled"}
    IN  IF scrollTop > last /\ scrollTop > 100
        THEN scrolled \cup {"header--hidden"}
        ELSE scrolled \ {"header--hidden"}

Navigation ==
    [isNavOpen |-> isNavOpen, navToggleClass |-> navToggleClass,
     navClass |-> navClass, bodyOverflow |-> bodyOverflow]

NavigationBecomes(n) ==
    /\ isNavOpen' = n.isNavOpen
    /\ navToggleClass' = n.navToggleClass
    /\ navClass' = n.navClass
    /\ bodyOverflow' = n.bodyOverflow

\* new NavigationManager() on a page of the given markup and width.
NavigationManagerInit(markup, width) ==
    /\ isNavOpen = FALSE
    /\ navToggleClass = {}
    /\ navClass = markup
    /\ bodyOverflow = ""
    /\ innerWidth = width
    /\ headerClass = {}
    /\ lastScrollTop = 0

----------------------------------------------------------------------------
(* The notification elements (showNotification, removeNotification of      *)
(* static/js/download.js) and their timers.                                *)

\* The arguments showError and showSuccess pass on.
NotificationInputs ==
    { [message |-> "download started", type |-> "success"],
      [message |-> "download busy, error code: 500", type |-> "error"] }

\* removeNotification(notification): the exit animation is set and the
\* removal is scheduled 300 ms later.
removeNotification(page, n) ==
    [notes  |-> [page.notes EXCEPT ![n].animation = "slideOutRight 0.3s ease-in"],
     timers |-> [page.timers EXCEPT ![n].remove = @ + 1]]

\* Variant: the child is removed without the parentNode test; for an element
\* that has left the page already the callback throws on the null parent.
removeTimeoutUnchecked(page, n) ==
    [notes  |-> [page.notes EXCEPT ![n].parentNode =
                     IF @ = "body" THEN "null" ELSE "TypeError"],
     timers |-> [page.timers EXCEPT ![n].remove = @ - 1]]

\* The callback of the 300 ms timer:
\* `if (notification.parentNode) parentNode.removeChild(notification)`.
removeTimeout(page, n) ==
    [notes  |-> [page.notes EXCEPT ![n].parentNode =
                     IF @ # "null" THEN "null" ELSE @],
     timers |-> [page.timers EXCEPT ![n].remove = @ - 1]]

\* Variant: a notification is left to its dismiss control alone.
autoTimeoutNever(page, n) ==
    [notes  |-> page.notes,
     timers |-> [page.timers EXCEPT ![n].auto = FALSE]]

\* The callback of the 5000 ms timer: removeNotification(notification).
autoTimeout(page, n) ==
    removeNotification(
        [notes  |-> page.notes,
         timers |-> [page.timers EXCEPT ![n].auto = FALSE]], n)

\* showNotification(message, type): the element is appended to the body and
\* its 5000 ms timer is started.
appendNotification(page, input) ==
    [notes  |-> Append(page.notes,
                    [message |-> input.message, type |-> input.type,
                     parentNode |-> "body", animation |-> ""]),
     timers |-> Append(page.timers, [auto |-> TRUE, remove |-> 0])]

Page == [notes |-> notes, timers |-> timers]

PageBecomes(page) ==
    /\ notes' = page.notes
    /\ timers' = page.timers

NotificationsInit ==
    /\ notes = << >>
    /\ timers = << >>

----------------------------------------------------------------------------
(* Actions of the download flows.                                          *)

\* new DownloadManager()
DownloadManagerInit ==
    /\ userAgent \in UserAgents
    /\ hostname \in Hostnames
    /\ pc = [f \in Flows |-> "idle"]
    /\ handler = [f \in Flows |-> ""]
    /\ deviceType = [f \in Flows |-> ""]
    /\ trace = [f \in Flows |-> << >>]
    /\ requests = [f \in Flows |-> << >>]
    /\ downloads = [f \in Flows |-> << >>]
    /\ notifications = [f \in Flows |-> << >>]
    /\ btnStyle = [opacity |-> "", pointerEvents |-> ""]
    /\ rejected = {}

\* The page after its load event, with no fragment in the URL.
Init ==
    /\ DownloadManagerInit
    /\ SPAManagerInit("")
    /\ NavigationManagerInit({"hidden"}, 1024)
    /\ NotificationsInit

\* Variant: the listener ignores clicks while a flow is in flight.
ClickGuarded ==
    \E f \in Flows :
        /\ pc[f] = "idle"
        /\ \A g \in Flows : pc[g] \in {"idle", "done"}
        /\ \A g \in 1..(f - 1) : pc[g] # "idle"
        /\ \E target \in Targets :
           LET b == bindEvents(target, userAgent)
           IN  /\ handler' = [handler EXCEPT ![f] = b.handler]
               /\ deviceType' = [deviceType EXCEPT ![f] = b.type]
               /\ Run(f, handlerEnter(b.handler, b.type, hostname))
        /\ UNCHANGED <<userAgent, hostname>>

\* A click reaches the document listener on a download control; the
\* listener holds no guard, so the click starts the next flow.
Click ==
    \E f \in Flows :
        /\ pc[f] = "idle"
        /\ \A g \in 1..(f - 1) : pc[g] # "idle"
        /\ \E target \in Targets :
           LET b == bindEvents(target, userAgent)
           IN  /\ handler' = [handler EXCEPT ![f] = b.handler]
               /\ deviceType' = [deviceType EXCEPT ![f] = b.type]
               /\ Run(f, handlerEnter(b.handler, b.type, hostname))
        /\ UNCHANGED <<userAgent, hostname>>

Resume(f, o) ==
    /\ Run(f, handlerResume(handler[f], o))
    /\ UNCHANGED <<userAgent, hostname, handler, deviceType>>

FetchReject ==
    \E f \in Flows :
        /\ pc[f] \in {"fetch1", "fetch2"}
        /\ Resume(f, fetchRejected)

FetchResolve ==
    \E f \in Flows :
        /\ pc[f] \in {"fetch1", "fetch2"}
        /\ \E status \in Statuses :
              Resume(f, fetchResolved(IF pc[f] = "fetch1" THEN 1 ELSE 2, status))

JsonReject ==
    \E f \in Flows :
        /\ pc[f] \in {"json1", "json2"}
        /\ Resume(f, jsonRejected)

Json1Resolve ==
    \E f \in Flows :
        /\ pc[f] = "json1"
        /\ \E data1 \in Json1Values : Resume(f, json1Resolved(data1))

Json2Resolve ==
    \E f \in Flows :
        /\ pc[f] = "json2"
        /\ \E data2 \in Json2Values : Resume(f, json2Resolved(data2))

Next ==
    \/ Click
    \/ FetchReject
    \/ FetchResolve
    \/ JsonReject
    \/ Json1Resolve
    \/ Json2Resolve

Spec == Init /\ [][Next]_vars

\* A step in which a hop or its body answers a suspended flow.
Response ==
    \/ FetchReject
    \/ FetchResolve
    \/ JsonReject
    \/ Json1Resolve
    \/ Json2Resolve

\* The flows on a network that answers: every fetch and every read of a
\* body that is pending is resolved or rejected at some time.  The flows are
\* finitely many and each takes at most four answers, so the weak fairness
\* of the answers as a whole reaches each of them.  The code sets no timer
\* on a hop, so without this condition a flow may wait forever.
SpecResponsive == Init /\ [][Next]_vars /\ WF_vars(Response)

----------------------------------------------------------------------------
(* Actions of the single-page navigation and of the FAQ accordion.         *)

\* Number of entries the session history may hold.
MaxEntries == 3

\* The page after its load event, loaded with any of the fragments.
InitSPA ==
    /\ DownloadManagerInit
    /\ userAgent = <<"Mozilla", "Windows", "Chrome">>
    /\ \E hash \in Hashes : SPAManagerInit(hash)
    /\ NavigationManagerInit({"hidden"}, 1024)
    /\ NotificationsInit

\* A click on a nav link with the given data-section.
NavLinkClick(section) ==
    /\ includes(sections, section) => index < MaxEntries
    /\ SPABecomes(navLinkClick(SPA, section))
    /\ UNCHANGED <<faqItems, downloadVars, navVars, noteVars>>

\* A click on an in-page link with the given href.
AnchorClick(href) ==
    /\ includes(sections, substring1[href]) => index < MaxEntries
    /\ SPABecomes(anchorClick(SPA, href))
    /\ UNCHANGED <<faqItems, downloadVars, navVars, noteVars>>

\* The browser goes one entry back and fires popstate with its state.
HistoryBack ==
    /\ index > 1
    /\ SPABecomes(popstate([SPA EXCEPT !.index = index - 1], entries[index - 1].state))
    /\ UNCHANGED <<faqItems, downloadVars, navVars, noteVars>>

\* The browser goes one entry forward and fires popstate with its state.
HistoryForward ==
    /\ index < Len(entries)
    /\ SPABecomes(popstate([SPA EXCEPT !.index = index + 1], entries[index + 1].state))
    /\ UNCHANGED <<faqItems, downloadVars, navVars, noteVars>>

\* A click on the question of a FAQ item.
FaqClick(item) ==
    /\ faqItems' = faqClick(faqItems, item)
    /\ UNCHANGED <<currentSection, activeSections, activeLinks, entries, index>>
    /\ UNCHANGED <<downloadVars, navVars, noteVars>>

NextSPA ==
    \/ \E section \in SectionIds : NavLinkClick(section)
    \/ \E href \in Hrefs : AnchorClick(href)
    \/ HistoryBack
    \/ HistoryForward
    \/ \E item \in FaqItems : FaqClick(item)

SpecSPA == InitSPA /\ [][NextSPA]_vars

----------------------------------------------------------------------------
(* Actions of the mobile navigation.                                       *)

\* The page after its load event, for any markup of the panel and any width.
InitNavigation ==
    /\ DownloadManagerInit
    /\ userAgent = <<"Mozilla", "Windows", "Chrome">>
    /\ SPAManagerInit("")
    /\ \E markup \in NavMarkups, width \in Widths :
          NavigationManagerInit(markup, width)
    /\ NotificationsInit

\* A click somewhere on the page.
NavClick(target) ==
    /\ NavigationBecomes(navClick(Navigation, target))
    /\ UNCHANGED <<innerWidth, headerClass, lastScrollTop>>
    /\ UNCHANGED <<downloadVars, spaVars, noteVars>>

\* A key is pressed.
KeyDown(key) ==
    /\ NavigationBecomes(keydown(Navigation, key))
    /\ UNCHANGED <<innerWidth, headerClass, lastScrollTop>>
    /\ UNCHANGED <<downloadVars, spaVars, noteVars>>

\* The window is resized to the given width.
Resize(width) ==
    /\ innerWidth' = width
    /\ NavigationBecomes(resize(Navigation, width))
    /\ UNCHANGED <<headerClass, lastScrollTop>>
    /\ UNCHANGED <<downloadVars, spaVars, noteVars>>

\* The page is scrolled to the given offset.
Scroll(scrollTop) ==
    /\ headerClass' = scroll(headerClass, lastScrollTop, scrollTop)
    /\ lastScrollTop' = scrollTop
    /\ UNCHANGED <<isNavOpen, navToggleClass, navClass, bodyOverflow, innerWidth>>
    /\ UNCHANGED <<downloadVars, spaVars, noteVars>>

NextNavigation ==
    \/ \E target \in ClickTargets : NavClick(target)
    \/ \E key \in Keys : KeyDown(key)
    \/ \E width \in Widths : Resize(width)
    \/ \E scrollTop \in ScrollTops : Scroll(scrollTop)

SpecNavigation == InitNavigation /\ [][NextNavigation]_vars

----------------------------------------------------------------------------
(* Actions of the notifications.  A timer that is pending fires: the       *)
(* browser runs every callback it was handed, so the two timer actions are *)
(* weakly fair; what the user does is not.                                 *)

\* Number of notifications a behaviour may create.
MaxNotifications == 2

\* Number of pending removals of one notification up to which its dismiss
\* control is clicked once more.
MaxPendingRemovals == 2

InitNotifications ==
    /\ DownloadManagerInit
    /\ userAgent = <<"Mozilla", "Windows", "Chrome">>
    /\ SPAManagerInit("")
    /\ NavigationManagerInit({"hidden"}, 1024)
    /\ NotificationsInit

\* showNotification(message, type) is called.
ShowNotification(input) ==
    /\ Len(notes) < MaxNotifications
    /\ PageBecomes(appendNotification(Page, input))
    /\ UNCHANGED <<downloadVars, spaVars, navVars>>

\* The dismiss control of a notification on the page is clicked.
CloseClick(n) ==
    /\ n \in 1..Len(notes)
    /\ notes[n].parentNode = "body"
    /\ timers[n].remove < MaxPendingRemovals
    /\ PageBecomes(removeNotification(Page, n))
    /\ UNCHANGED <<downloadVars, spaVars, navVars>>

\* The 5000 ms timer of a notification fires.
AutoTimeout(n) ==
    /\ n \in 1..Len(notes)
    /\ timers[n].auto
    /\ PageBecomes(autoTimeout(Page, n))
    /\ UNCHANGED <<downloadVars, spaVars, navVars>>

\* A 300 ms timer of a notification fires.
RemoveTimeout(n) ==
    /\ n \in 1..Len(notes)
    /\ timers[n].remove > 0
    /\ PageBecomes(removeTimeout(Page, n))
    /\ UNCHANGED <<downloadVars, spaVars, navVars>>

NextNotifications ==
    \/ \E input \in NotificationInputs : ShowNotification(input)
    \/ \E n \in 1..MaxNotifications : CloseClick(n)
    \/ \E n \in 1..MaxNotifications : AutoTimeout(n)
    \/ \E n \in 1..MaxNotifications : RemoveTimeout(n)

SpecNotifications ==
    /\ InitNotifications
    /\ [][NextNotifications]_vars
    /\ \A n \in 1..MaxNotifications :
          WF_vars(AutoTimeout(n)) /\ WF_vars(RemoveTimeout(n))

----------------------------------------------------------------------------
(* Vocabulary of the properties.                                           *)

Started(f) == pc[f] # "idle"
Settled(f) == pc[f] = "done"
InFlight(f) == Started(f) /\ ~Settled(f)

\* The busy state: the download buttons do not take pointer events.
Busy == btnStyle.pointerEvents = "none"

Has(f, op) == \E i \in 1..Len(trace[f]) : trace[f][i].op = op
Logged(f, err) ==
    \E i \in 1..Len(trace[f]) :
        trace[f][i].op = "console.error" /\ trace[f][i].arg = err

\* Flow f is resumed from the await `at` in this step.
ResumedAt(f, at) == pc[f] = at /\ pc'[f] # at

\* The step in which flow f gets the parsed body of hop 1 / of hop 2.
Receives1(f, data1) == ResumedAt(f, "json1") /\ Resume(f, json1Resolved(data1))
Receives2(f, data2) == ResumedAt(f, "json2") /\ Resume(f, json2Resolved(data2))

\* A body carries a field when the field is there, whatever its value.
Carries(data, field) == data[field] # Undefined

\* The step in which a click on `target` starts flow f.
ClickOn(f, target) ==
    /\ pc[f] = "idle" /\ pc'[f] # "idle"
    /\ handler'[f] = bindEvents(target, userAgent).handler
    /\ deviceType'[f] = bindEvents(target, userAgent).type

ErrorNotification(message) == [message |-> message, type |-> "error"]
SuccessNotification == [message |-> "download started", type |-> "success"]

----------------------------------------------------------------------------
\* C1: every flow calls showLoadingState before it issues hop 1 and calls
\* hideLoadingState, as its last call, exactly when it settles, whatever the
\* exit path; so the buttons are busy while flows are in flight and none has
\* settled yet, and are restored once every started flow has settled.
C1_BusyAroundEveryFlow ==
    /\ \A f \in Flows :
        /\ Started(f) =>
              /\ trace[f][1].op = "showLoadingState"
              /\ trace[f][2].op = "fetch"
              /\ trace[f][2].arg = requests[f][1]
        /\ Settled(f) <=> Has(f, "hideLoadingState")
        /\ Settled(f) => trace[f][Len(trace[f])].op = "hideLoadingState"
    /\ ((\E f \in Flows : InFlight(f)) /\ (\A f \in Flows : ~Settled(f))) => Busy
    /\ ((\E f \in Flows : Started(f)) /\ (\A f \in Flows : ~InFlight(f))) => ~Busy

\* A flow has settled through the catch block after a protocol violation on
\* hop 2, and the buttons are restored.
C1_Witness ==
    \E f \in Flows :
        /\ Settled(f)
        /\ Logged(f, NoGoError)
        /\ trace[f][Len(trace[f])].op = "hideLoadingState"
        /\ \A g \in Flows : ~InFlight(g)
        /\ ~Busy

----------------------------------------------------------------------------
\* C2 (as claimed): whenever hop 1 answers 2xx with a body that carries code
\* and msg and no webhost, whatever their values, the flow ends there with
\* exactly one error notification showing msg verbatim, without a second
\* request and without a download.
C2_ServerMessageForEveryCodeAndMsg ==
    [][ \A f \in Flows : ResumedAt(f, "json1") => \A data1 \in Bodies1 :
          ( /\ Carries(data1, "code")
            /\ Carries(data1, "msg")
            /\ ~Carries(data1, "webhost")
            /\ Receives1(f, data1) )
          => /\ pc'[f] = "done"
             /\ notifications'[f] = << ErrorNotification(data1.msg.v) >>
             /\ Len(requests'[f]) = 1
             /\ downloads'[f] = << >> ]_vars

----------------------------------------------------------------------------
\* The steps that are a transport failure or a resolution error of flow f:
\* a rejected fetch, a non-2xx status, or a 2xx body without the success
\* field in which code or msg is missing.
FailureStep(f) ==
    \/ /\ ResumedAt(f, "fetch1") \/ ResumedAt(f, "fetch2")
       /\ Resume(f, fetchRejected)
    \/ /\ ResumedAt(f, "fetch1") \/ ResumedAt(f, "fetch2")
       /\ \E status \in Statuses :
          /\ ~Ok(status)
          /\ Resume(f, fetchResolved(IF pc[f] = "fetch1" THEN 1 ELSE 2, status))
    \/ /\ ResumedAt(f, "json1")
       /\ \E data1 \in Bodies1 :
          /\ ~Carries(data1, "webhost")
          /\ ~(Carries(data1, "code") /\ Carries(data1, "msg"))
          /\ Receives1(f, data1)
    \/ /\ ResumedAt(f, "json2")
       /\ \E data2 \in Bodies2 :
          /\ ~Carries(data2, "go")
          /\ ~(Carries(data2, "code") /\ Carries(data2, "msg"))
          /\ Receives2(f, data2)

\* C3 (as claimed): every transport failure and every resolution error shows
\* the one notification "download busy, error code: 500", whichever control
\* started the flow.
C3_OneGenericTextForAllControls ==
    [][ \A f \in Flows :
          (pc'[f] # pc[f] /\ FailureStep(f)) =>
            notifications'[f] =
                << ErrorNotification("download busy, error code: 500") >> ]_vars

\* C3 (amended): every transport failure and every resolution error shows
\* exactly one notification with the fixed text of the handler that runs the
\* flow: "download busy, error code: 500" for the PC and mobile controls,
\* "sorry, the site has expired, renew it now" for the generic control.
C3_FixedTextPerHandler ==
    [][ \A f \in Flows :
          (pc'[f] # pc[f] /\ FailureStep(f)) =>
            /\ pc'[f] = "done"
            /\ handler[f] = "handleDownload" =>
                  notifications'[f] =
                      << ErrorNotification("download busy, error code: 500") >>
            /\ handler[f] = "handleOriginalDownload" =>
                  notifications'[f] =
                      << ErrorNotification("sorry, the site has expired, renew it now") >>
            /\ downloads'[f] = << >> ]_vars

\* A flow of the generic control has settled on a non-2xx answer of hop 2,
\* and a flow of a device control on the resolution error of hop 1; each
\* shows the text of its handler.
C3_Witness ==
    \E f, g \in Flows :
        /\ handler[f] = "handleOriginalDownload"
        /\ Settled(f)
        /\ Logged(f, HttpError(500))
        /\ Len(requests[f]) = 2
        /\ notifications[f] =
              << ErrorNotification("sorry, the site has expired, renew it now") >>
        /\ handler[g] = "handleDownload"
        /\ Settled(g)
        /\ Logged(g, NoWebhostError)
        /\ notifications[g] =
              << ErrorNotification("download busy, error code: 500") >>

----------------------------------------------------------------------------
\* C4: a flow issues at most two requests; the second is issued only in the
\* step in which hop 1's 2xx body arrives with webhost set, and its URL is
\* that webhost and nothing more; a body of hop 1 with webhost set always
\* leads to that request.  So no failure of hop 1 is followed by a hop 2.
C4_Hop2OnlyAfterWebhost ==
    [][ \A f \in Flows : pc'[f] # pc[f] =>
          /\ Len(requests'[f]) <= 2
          /\ (Started(f) /\ requests'[f] # requests[f]) =>
                \E data1 \in Bodies1 :
                    /\ data1.webhost.t = "string"
                    /\ data1.webhost.v # ""
                    /\ Receives1(f, data1)
                    /\ requests'[f] = Append(requests[f], data1.webhost.v)
          /\ ResumedAt(f, "json1") => \A data1 \in Bodies1 :
                (data1.webhost.t = "string" /\ data1.webhost.v # ""
                    /\ Receives1(f, data1))
                => /\ pc'[f] = "fetch2"
                   /\ requests'[f] = Append(requests[f], data1.webhost.v) ]_vars

\* A flow has issued hop 2 against the webhost that hop 1 returned.
C4_Witness ==
    \E f \in Flows :
        /\ pc[f] = "fetch2"
        /\ requests[f] = << Hop1Url(deviceType[f], hostname), "https://x/y" >>

----------------------------------------------------------------------------
\* C5: when hop 1 answers 2xx with a body that has no webhost and in which
\* code or msg is missing (or with the body null), the flow ends there
\* through the catch block: the error is logged, the one notification is the
\* handler's fixed text, no second request is issued, nothing is downloaded.
C5_NoWebhostNoPairIsResolutionError ==
    [][ \A f \in Flows : ResumedAt(f, "json1") => \A data1 \in Json1Values :
          ( /\ data1 # JsonNull =>
                  /\ ~Truthy(data1.webhost)
                  /\ ~(Carries(data1, "code") /\ Carries(data1, "msg"))
            /\ Receives1(f, data1) )
          => /\ pc'[f] = "done"
             /\ Logged(f, IF data1 = JsonNull THEN PlatformError ELSE NoWebhostError)'
             /\ notifications'[f] \in
                  { << ErrorNotification("download busy, error code: 500") >>,
                    << ErrorNotification("sorry, the site has expired, renew it now") >> }
             /\ Len(requests'[f]) = 1
             /\ downloads'[f] = << >> ]_vars

\* A flow has settled on the "no valid download address" error of hop 1.
C5_Witness ==
    \E f \in Flows :
        /\ Settled(f)
        /\ Logged(f, NoWebhostError)
        /\ Len(requests[f]) = 1
        /\ Len(notifications[f]) = 1

----------------------------------------------------------------------------
\* C6 (as claimed): hop 2 follows the policy of hop 1 when go is absent: a
\* body that carries code and msg ends the flow with one error notification
\* showing msg verbatim and no download; a body in which code or msg is
\* missing ends it through the catch block with the handler's fixed text.
C6_Hop2SamePolicy ==
    [][ \A f \in Flows : ResumedAt(f, "json2") => \A data2 \in Bodies2 :
          (~Carries(data2, "go") /\ Receives2(f, data2))
          => /\ pc'[f] = "done"
             /\ downloads'[f] = << >>
             /\ IF Carries(data2, "code") /\ Carries(data2, "msg")
                THEN /\ notifications'[f] = << ErrorNotification(data2.msg.v) >>
                     /\ ~Has(f, "console.error")'
                ELSE /\ notifications'[f] =
                            << ErrorNotification(CatchMessage(handler[f])) >>
                     /\ Logged(f, NoGoError)' ]_vars

----------------------------------------------------------------------------
\* C7: a flow clicks a download link only in the step in which hop 2's 2xx
\* body arrives with go set, after hop 1 returned the webhost it fetched;
\* it then clicks once, on exactly go, shows the success notification next
\* and no error notification.  A flow that has not downloaded has shown no
\* success notification, and no flow downloads twice.
C7_DownloadIffBothHopsSucceed ==
    [][ \A f \in Flows : pc'[f] # pc[f] =>
          /\ Len(downloads'[f]) <= 1
          /\ downloads'[f] # downloads[f] =>
                /\ Len(requests[f]) = 2
                /\ \E data2 \in Bodies2 :
                      /\ Truthy(data2.go)
                      /\ Receives2(f, data2)
                      /\ downloads'[f] = << data2.go.v >>
          /\ ResumedAt(f, "json2") => \A data2 \in Bodies2 :
                (Truthy(data2.go) /\ Receives2(f, data2))
                => /\ downloads'[f] = << data2.go.v >>
                   /\ notifications'[f] = << SuccessNotification >>
                   /\ LET n == Len(trace'[f])
                      IN  /\ trace'[f][n - 2] = Call("click", data2.go.v)
                          /\ trace'[f][n - 1].op = "showNotification"
                          /\ trace'[f][n].op = "hideLoadingState"
          /\ downloads'[f] = << >> =>
                \A i \in 1..Len(notifications'[f]) :
                    notifications'[f][i].type # "success" ]_vars

\* A flow has settled with one download of the go URL and the success
\* notification as its only notification.
C7_Witness ==
    \E f \in Flows :
        /\ Settled(f)
        /\ downloads[f] = << "https://files/app.apk" >>
        /\ requests[f][2] = "https://x/y"
        /\ notifications[f] = << SuccessNotification >>

----------------------------------------------------------------------------
\* C8: no handler promise ever rejects, a settled flow has appended exactly
\* one notification (a success or an error), and a flow in flight none.
C8_EveryFailureCaughtOneNotification ==
    /\ rejected = {}
    /\ \A f \in Flows :
        /\ Settled(f) =>
              /\ Len(notifications[f]) = 1
              /\ notifications[f][1].type \in {"success", "error"}
        /\ ~Settled(f) => notifications[f] = << >>

\* One flow has settled on an error raised by the platform at hop 2, the
\* other on the missing go of hop 2, each with its one error notification
\* and no rejected promise.
C8_Witness ==
    \E f, g \in Flows :
        /\ Settled(f)
        /\ Logged(f, PlatformError)
        /\ Len(requests[f]) = 2
        /\ Settled(g)
        /\ Logged(g, NoGoError)
        /\ Len(notifications[f]) = 1
        /\ Len(notifications[g]) = 1
        /\ rejected = {}

----------------------------------------------------------------------------
\* C9 (as claimed): while any flow is in flight the buttons are busy.
C9_BusyWhileAnyFlowInFlight ==
    (\E f \in Flows : InFlight(f)) => Busy

----------------------------------------------------------------------------
\* C10: a click on a download control is taken whenever it arrives, also
\* while other flows are suspended at hop 1 or hop 2; the flow it starts
\* issues its own hop 1, and a step of one flow leaves the position, the
\* requests, the downloads and the notifications of every other flow alone.
C10_NoInFlightGuard ==
    /\ []((\E f \in Flows : pc[f] = "idle") => ENABLED Click)
    /\ [][ \A f \in Flows :
             /\ (pc[f] = "idle" /\ pc'[f] # "idle") =>
                   /\ pc'[f] = "fetch1"
                   /\ requests'[f] = << Hop1Url(deviceType'[f], hostname) >>
             /\ pc'[f] # pc[f] =>
                   \A g \in Flows \ {f} :
                       /\ pc'[g] = pc[g]
                       /\ requests'[g] = requests[g]
                       /\ downloads'[g] = downloads[g]
                       /\ notifications'[g] = notifications[g] ]_vars

\* The second flow was started while the first was suspended, and has run
\* to its own download and notification while the first still awaits the
\* body of hop 2.
C10_Witness ==
    /\ pc[1] = "json2"
    /\ Settled(2)
    /\ Len(requests[1]) = 2 /\ Len(requests[2]) = 2
    /\ downloads[2] = << "https://files/app.apk" >>
    /\ notifications[2] = << SuccessNotification >>

----------------------------------------------------------------------------
\* C11: a flow issues at most two requests, the first to hop 1 and the
\* second, if any, to the webhost that hop 1 named; once a flow has settled,
\* by a failure or otherwise, it stays settled and its list of requests
\* never grows: only a new click, which starts another flow, issues a
\* request again.
C11_AtMostOneRequestPerHop ==
    /\ [](\A f \in Flows :
            /\ Len(requests[f]) <= 2
            /\ Started(f) <=> Len(requests[f]) >= 1
            /\ Len(requests[f]) >= 1 =>
                  requests[f][1] = Hop1Url(deviceType[f], hostname)
            /\ Len(requests[f]) = 2 =>
                  /\ requests[f][2] = "https://x/y"
                  /\ pc[f] \in {"fetch2", "json2", "done"}
            /\ pc[f] \in {"fetch1", "json1"} => Len(requests[f]) = 1)
    /\ [][ \A f \in Flows :
             Settled(f) => /\ pc'[f] = "done"
                           /\ requests'[f] = requests[f]
                           /\ trace'[f] = trace[f] ]_vars

\* One flow has failed at hop 1 with a non-2xx status after its single
\* request and stays settled, while a later click has started another flow
\* that failed at hop 2 after one request to each hop.
C11_Witness ==
    /\ Settled(1)
    /\ Logged(1, HttpError(500))
    /\ Len(requests[1]) = 1
    /\ Settled(2)
    /\ Logged(2, HttpError(500))
    /\ Len(requests[2]) = 2

----------------------------------------------------------------------------
\* C12: a click that lands in the PC control alone starts a flow whose hop 1
\* carries type=pc, one in the mobile control type=mobile, each with
\* site=<hostname of the page>; a click in the generic control alone carries
\* the type that device detection gives for the user agent (mobile for a
\* user agent naming an iPad in any letter case, pc otherwise).
C12_Hop1CarriesTypeAndSite ==
    [][ \A f \in Flows :
          /\ ClickOn(f, {"download-btn--pc"}) =>
                requests'[f] = << apiBaseUrl \o "?type=pc&site=" \o hostname >>
          /\ ClickOn(f, {"download-btn--mobile"}) =>
                requests'[f] = << apiBaseUrl \o "?type=mobile&site=" \o hostname >>
          /\ ClickOn(f, {"getDown"}) =>
                requests'[f] =
                   << apiBaseUrl \o "?type="
                        \o (IF userAgent = <<"Mozilla", "IPAD", "Safari">>
                            THEN "mobile" ELSE "pc")
                        \o "&site=" \o hostname >> ]_vars

\* On a page whose user agent names an iPad, one flow was started from the
\* generic control and asked hop 1 for the mobile build, another from the PC
\* control and asked for the PC build.
C12_Witness ==
    /\ userAgent = <<"Mozilla", "IPAD", "Safari">>
    /\ \E f, g \in Flows :
          /\ handler[f] = "handleOriginalDownload"
          /\ requests[f][1] = "https://a.hkdownload.com/get.php?type=mobile&site=sigua.io"
          /\ handler[g] = "handleDownload"
          /\ requests[g][1] = "https://a.hkdownload.com/get.php?type=pc&site=sigua.io"

----------------------------------------------------------------------------
\* C13: whatever questions are clicked, in whatever order, at most one FAQ
\* item is open, and the answer of an item is expanded exactly when the item
\* is open; a click on a closed item leaves that item open and every other
\* item closed, also when another item was open before.
C13_AtMostOneFaqItemOpen ==
    /\ [](/\ Cardinality({i \in FaqItems : faqItems[i].open}) <= 1
          /\ \A i \in FaqItems :
                faqItems[i].open <=> faqItems[i].maxHeight = "scrollHeight px")
    /\ [][ \A item \in FaqItems :
             (~faqItems[item].open /\ FaqClick(item)) =>
                 \A i \in FaqItems : faqItems'[i].open <=> i = item ]_vars

\* The second item is open, its answer expanded, and the click that opened
\* it has collapsed the answers of the other two.
C13_Witness ==
    /\ faqItems["faq-2"].open
    /\ faqItems["faq-2"].maxHeight = "scrollHeight px"
    /\ ~faqItems["faq-1"].open /\ faqItems["faq-1"].maxHeight = "0"
    /\ ~faqItems["faq-3"].open /\ faqItems["faq-3"].maxHeight = "0"

----------------------------------------------------------------------------
\* C14: after the load and after any clicks that call navigateToSection,
\* with ids inside or outside the fixed set, and any back and forward events,
\* exactly one section element carries section--active, it is the element
\* of currentSection, and currentSection is one of home, features, faq,
\* download.
C14_ExactlyOneActiveSection ==
    /\ Cardinality(activeSections) = 1
    /\ activeSections = {currentSection}
    /\ currentSection \in {"home", "features", "faq", "download"}

\* Two sections were navigated to and the browser went back twice: the page
\* is at the entry of the load, with one section active.
C14_Witness ==
    /\ Len(entries) = 3
    /\ index = 1
    /\ entries[3].hash = "#download"
    /\ Cardinality(activeSections) = 1

----------------------------------------------------------------------------
\* C15 (as claimed): a browser-back makes active again the section that was
\* active at the entry it returns to: the section of that entry if
\* navigateToSection pushed it, and, for the entry of the page load, the
\* section the load showed (that of a valid fragment, home otherwise).
C15_BackRestoresPriorSection ==
    [][ (index' = index - 1 /\ entries' = entries) =>
            LET entry == entries[index']
                prior == IF entry.state.t # "null" THEN entry.state.section
                         ELSE IF entry.hash \in {"#faq", "#download"}
                         THEN substring1[entry.hash]
                         ELSE "home"
            IN  activeSections' = {prior} ]_vars

----------------------------------------------------------------------------
\* C16: a call of navigateToSection with an id of the fixed set, whether
\* from a nav link or from an in-page link, leaves the entries up to the
\* current one as they are and adds exactly one entry after it, with the
\* fragment #id and the state {section: id}, which becomes the current one;
\* a back or forward event leaves the entries as they are.
C16_PushOnNavigateOnly ==
    [][ /\ \A section \in {"home", "features", "faq", "download"} :
              ( \/ NavLinkClick(section)
                \/ \E href \in Hrefs : substring1[href] = section /\ AnchorClick(href) ) =>
                  /\ index' = index + 1
                  /\ Len(entries') = index + 1
                  /\ SubSeq(entries', 1, index) = SubSeq(entries, 1, index)
                  /\ entries'[index'].hash = "#" \o section
                  /\ entries'[index'].state.section = section
        /\ (HistoryBack \/ HistoryForward) =>
              /\ entries' = entries
              /\ index' # index ]_vars

\* After two navigations and one back event the history still has its
\* three entries, with the pushed fragments, and the page is at the second.
C16_Witness ==
    /\ Len(entries) = 3
    /\ index = 2
    /\ entries[2].hash = "#faq"
    /\ entries[3].hash = "#features"
    /\ currentSection = "faq"

----------------------------------------------------------------------------
\* C17: as long as the page has not been navigated since its load, the active
\* section, currentSection and the highlighted link are those of the
\* fragment the page was loaded with if it names a section, and home if the
\* fragment is absent or names no section; the page is never left without an
\* active section.
C17_InitialRoute ==
    Len(entries) = 1 =>
        LET hash == entries[1].hash
            section == CASE hash = "#faq"      -> "faq"
                         [] hash = "#download" -> "download"
                         [] OTHER              -> "home"
        IN  /\ activeSections = {section}
            /\ currentSection = section
            /\ activeLinks = {section}

\* The page was loaded with the fragment #doesnotexist and shows home.
C17_Witness ==
    /\ Len(entries) = 1
    /\ entries[1].hash = "#doesnotexist"
    /\ activeSections = {"home"}
    /\ currentSection = "home"

----------------------------------------------------------------------------
\* C18: in every state reached by clicks on the toggle, clicks outside and
\* inside the panel, clicks on in-page links, key presses and resizes,
\* isNavOpen holds exactly when the panel carries nav--open and not hidden
\* and the body overflow is "hidden"; each of the open class, the scroll
\* lock and the active class of the toggle is there exactly when isNavOpen
\* holds.
C18_OpenIffVisibleAndLocked ==
    /\ isNavOpen <=> ( /\ "hidden" \notin navClass
                       /\ "nav--open" \in navClass
                       /\ bodyOverflow = "hidden" )
    /\ isNavOpen <=> "nav--open" \in navClass
    /\ isNavOpen <=> bodyOverflow = "hidden"
    /\ isNavOpen <=> "active" \in navToggleClass
    /\ isNavOpen => "hidden" \notin navClass

\* The nav is open on a narrow window: visible, and the page scroll locked.
C18_Witness ==
    /\ isNavOpen
    /\ innerWidth = 375
    /\ navClass = {"nav--open"}
    /\ bodyOverflow = "hidden"

----------------------------------------------------------------------------
----------------------------------------------------------------------------
\* C20: every notification on the page is eventually off the page, whether
\* its dismiss control is clicked or not; a notification leaves the page
\* only after its exit animation was started, and one that was neither
\* dismissed nor timed out is on the page without the exit animation.
C20_EveryNotificationRemoved ==
    /\ [](\A n \in 1..Len(notes) :
            /\ notes[n].parentNode = "null" =>
                  notes[n].animation = "slideOutRight 0.3s ease-in"
            /\ (timers[n].auto /\ notes[n].animation = "") =>
                  notes[n].parentNode = "body" /\ timers[n].remove = 0)
    /\ \A n \in 1..MaxNotifications :
          (n <= Len(notes) /\ notes[n].parentNode = "body")
              ~> (n <= Len(notes) /\ notes[n].parentNode = "null")

\* The first notification has left the page after its 5 s timer, the second
\* after a dismissal, before its 5 s timer fired.
C20_Witness ==
    /\ Len(notes) = 2
    /\ notes[1].parentNode = "null" /\ ~timers[1].auto
    /\ notes[2].parentNode = "null" /\ timers[2].auto
    /\ timers[1].remove = 0 /\ timers[2].remove = 0

----------------------------------------------------------------------------
\* C21: a flow that is in flight has not called hideLoadingState, and it
\* moves only from the await of one answer (hop 1, its body, hop 2, its body)
\* to the next await or to its end, one answer at a time, in a step that
\* starts no flow: there is no timer on a hop, so a flow whose hop never
\* answers stays suspended and never clears the busy state.  On a network
\* that answers every pending hop, every started flow eventually settles,
\* with hideLoadingState as its last call, and stays settled: from some time
\* on no started flow is in flight.
C21_SettlesIffHopsAnswer ==
    /\ [](\A f \in Flows : InFlight(f) => ~Has(f, "hideLoadingState"))
    /\ [][ \A f \in Flows :
             (InFlight(f) /\ pc'[f] # pc[f]) =>
                 /\ pc'[f] \in ( CASE pc[f] = "fetch1" -> {"json1", "done"}
                                  [] pc[f] = "json1"  -> {"fetch2", "done"}
                                  [] pc[f] = "fetch2" -> {"json2", "done"}
                                  [] pc[f] = "json2"  -> {"done"} )
                 /\ \A g \in Flows \ {f} : pc'[g] = pc[g] ]_vars
    /\ <>[](\A f \in Flows :
               Started(f) => /\ Settled(f)
                             /\ trace[f][Len(trace[f])].op = "hideLoadingState")

\* The first flow waits for hop 2, has not called hideLoadingState, and the
\* buttons are busy; the second has not been started.
C21_Witness ==
    /\ pc[1] = "fetch2"
    /\ ~Has(1, "hideLoadingState")
    /\ Busy
    /\ pc[2] = "idle"

----------------------------------------------------------------------------
\* C22: in every state, a call of navigateToSection with an id outside the
\* fixed set, from a nav link or from an in-page link, changes nothing: the
\* active section, currentSection, the history entries, the current entry
\* (and with it the fragment of the URL) and the highlighted link stay as
\* they are.
C22_InvalidIdIsNoOp ==
    /\ \A section \in SectionIds \ {"home", "features", "faq", "download"} :
          /\ navigateToSection(SPA, section) = SPA
          /\ navLinkClick(SPA, section) = SPA
    /\ \A href \in Hrefs :
          substring1[href] \notin {"home", "features", "faq", "download"} =>
              anchorClick(SPA, href) = SPA

\* The page shows faq after one navigation; a call with the id doesnotexist
\* leaves it so.
C22_Witness ==
    /\ Len(entries) = 2
    /\ index = 2
    /\ currentSection = "faq"
    /\ activeLinks = {"faq"}
    /\ navigateToSection(SPA, "doesnotexist").entries = entries

----------------------------------------------------------------------------
\* C23 (as claimed): after the load, after every call of navigateToSection
\* and after every back or forward event exactly one nav link is
\* highlighted, and it is the link of currentSection.
C23_HighlightFollowsSection ==
    activeLinks = {currentSection}

----------------------------------------------------------------------------
\* C24: a notification is on the page or off it, and once off it stays off;
\* a step that touches one notification or its timers (its dismiss control,
\* its 5 s timer, one of its removal timers) leaves every other notification
\* and its timers as they are; a removal timer that fires for a
\* notification that has left the page already changes no element.
C24_RemovalPerNotification ==
    /\ [](\A n \in 1..Len(notes) : notes[n].parentNode \in {"body", "null"})
    /\ [][ \A n \in 1..Len(notes) :
             /\ (notes'[n] # notes[n] \/ timers'[n] # timers[n]) =>
                   \A m \in (1..Len(notes)) \ {n} :
                       notes'[m] = notes[m] /\ timers'[m] = timers[m]
             /\ notes[n].parentNode = "null" => notes'[n] = notes[n]
                                                 \/ ( /\ notes'[n].parentNode = "null"
                                                      /\ timers[n].auto
                                                      /\ ~timers'[n].auto )
             /\ (RemoveTimeout(n) /\ notes[n].parentNode = "null") =>
                   notes' = notes ]_vars

\* Both notifications were on the page; the first was dismissed and timed
\* out as well: it has left the page once, its second removal is still
\* pending, and the second notification is on the page untouched.
C24_Witness ==
    /\ Len(notes) = 2
    /\ notes[1].parentNode = "null"
    /\ ~timers[1].auto
    /\ timers[1].remove = 1
    /\ notes[2].parentNode = "body"
    /\ notes[2].animation = ""
    /\ timers[2].auto

----------------------------------------------------------------------------
\* C25: a click that lands in the toggle, with both the listener of the
\* toggle and the listener of the document running for it, leaves the nav in
\* the opposite state: open if it was closed, closed if it was open.
C25_ToggleClickFlipsOnce ==
    /\ [](\A target \in ClickTargets :
            target.inToggle =>
                navClick(Navigation, target).isNavOpen = ~isNavOpen)
    /\ [][ \A target \in ClickTargets :
             (target.inToggle /\ NavClick(target)) =>
                 /\ isNavOpen' = ~isNavOpen
                 /\ ("nav--open" \in navClass') = ~isNavOpen ]_vars

\* The nav was opened by a click on the toggle on a wide window, with the
\* page scrolled down: the toggle is active and the panel open.
C25_Witness ==
    /\ isNavOpen
    /\ "active" \in navToggleClass
    /\ navClass = {"nav--open"}
    /\ innerWidth = 1024
    /\ lastScrollTop = 300

----------------------------------------------------------------------------
\* C26: in every state, a click on the question of the item that is open
\* leaves no item open, and a second click on the same question leaves the
\* accordion as it was before the two clicks: that item open and expanded,
\* every other closed.
C26_OpenItemTogglesBack ==
    \A item \in FaqItems :
        faqItems[item].open =>
            /\ \A i \in FaqItems : ~faqClick(faqItems, item)[i].open
            /\ faqClick(faqClick(faqItems, item), item) = faqItems

\* The third item is open, after the first had been opened and closed by
\* the click on the third.
C26_Witness ==
    /\ faqItems["faq-3"].open
    /\ faqItems["faq-3"].maxHeight = "scrollHeight px"
    /\ faqItems["faq-1"].maxHeight = "0"
    /\ ~faqItems["faq-2"].open
    /\ currentSection = "faq"

====
